---- MODULE Spec2Model ----
(***************************************************************************)
(* The "Labirinth" game (src/game.py): a roster of heroes walks a fixed    *)
(* 4 x 8 grid in turn order, fights, picks up a key, heals, burns on the   *)
(* round's fire cells and meets the golem.  The session can be saved to    *)
(* and loaded from a JSON file.                                            *)
(*                                                                         *)
(* Python values are modelled with their type where the code's behaviour   *)
(* depends on it: a coordinate is a record [t |-> "tuple" | "list", v]     *)
(* because a tuple never equals a list in Python, and the golem coordinate *)
(* carries the number of one-element tuples wrapped around it.             *)
(***************************************************************************)
EXTENDS Integers, Sequences, FiniteSets, TLC

VARIABLES
    heroes,        \* Game.heroes: sequence of hero records, in turn order
    round,         \* Game.round
    current_turn,  \* Game.current_turn (0-based index into heroes)
    fire_cells,    \* Game.fire_cells: sequence of coordinates
    labyrinth,     \* Game.labyrinth: [key, key_coord, golem_coord, fire_coords]
    save_file,     \* this login's entry of game_save.json, or NoSave
    pc,            \* where the program is (see PcValues)
    to_add,        \* add_heroes: names still to be asked for
    call,          \* a method called on its own: [fn, done, ...], or NoCall
    saves,         \* how often save_game has written the file in this run
    turns          \* how often hero_action has returned True since play was
                   \* entered or, later on, since save_game wrote the file

vars ==
    <<heroes, round, current_turn, fire_cells, labyrinth, save_file, pc, to_add,
      call, saves, turns>>

(***************************************************************************)
(* Bounds of the model.                                                    *)
(***************************************************************************)
\* no hero of a roster of two or more acts once the round counter has reached
\* this value
MaxRound == 4
\* no hero acts once the round counter has reached this value
MaxSoloRound == 16
\* rounds in which a hero acts in a loaded session, from the snapshot's round
MaxAfterLoad == 2
\* the game is saved at most this often in one run of the program
MaxSaves == 1
\* the game is saved no more than this many turns after the session entered
\* play or, later on, after the last save
MaxBeforeSave == 0
\* turns in which a hero acts after the game was saved, from the turn of the
\* snapshot written
MaxAfterSave == 1

(***************************************************************************)
(* Program constants.                                                      *)
(***************************************************************************)
MaxHeroes == 5
FullHealth == 5
StartHeals == 3
FireCount == 4

size_x == 4
size_y == 8

grid == << <<0, 0, 0, 0, 2, 1, 1, 1>>,
           <<0, 0, 2, 0, 0, 1, 0, 0>>,
           <<0, 1, 1, 1, 0, 1, 2, 0>>,
           <<1, 1, 0, 1, 1, 1, 0, 0>> >>

StartPosition == <<3, 0>>
StartPrevPosition == <<0, 0>>
KeyStart == <<1, 2>>
GolemCell == <<0, 7>>
hearts_coords == << <<0, 4>>, <<2, 6>> >>

NoSave == [none |-> TRUE]

\* no method is called on its own: the program runs from __main__
NoCall == [fn |-> "none"]

(***************************************************************************)
(* Python values.                                                          *)
(***************************************************************************)
Tup(c) == [t |-> "tuple", v |-> c]
Lst(c) == [t |-> "list", v |-> c]

\* a == b for two coordinates: a tuple and a list are never equal
PyEq(a, b) == a.t = b.t /\ a.v = b.v

\* c in cells, for a sequence of coordinates
PyIn(c, cells) == \E i \in 1..Len(cells) : PyEq(c, cells[i])

\* seq[i] is defined for -len <= i < len (a negative index counts from the end)
IndexOK(i, n) == -n <= i /\ i < n
PyIndex(i, n) == IF i < 0 THEN i + n ELSE i

\* grid[x][y] as Python evaluates it; only used where IndexOK holds
GridAt(x, y) == grid[PyIndex(x, Len(grid)) + 1][PyIndex(y, Len(grid[1])) + 1]
GridIndexOK(x, y) == IndexOK(x, Len(grid)) /\ IndexOK(y, Len(grid[1]))

\* position == golem_coord: the constructor's plain tuple equals a position,
\* a coordinate wrapped in one-element tuples equals none
GolemEq(pos, g) == g.wrap = 0 /\ PyEq(Tup(pos), g.c)

(***************************************************************************)
(* Hero and Labyrinth construction.                                        *)
(***************************************************************************)
NewHero(name) ==
    [name |-> name, health |-> FullHealth, has_key |-> FALSE,
     position |-> StartPosition, prev_position |-> StartPrevPosition,
     count_heal |-> StartHeals]

NewLabyrinth ==
    [key |-> TRUE, key_coord |-> Tup(KeyStart),
     golem_coord |-> [wrap |-> 0, c |-> Tup(GolemCell)],
     fire_coords |-> <<>>]

(***************************************************************************)
(* Labyrinth.generate_fire: the loop draws cells at random until four      *)
(* distinct cells of terrain code 1 are collected.  draws is the sequence  *)
(* of random draws (x, y) the loop consumes; the result is the list built  *)
(* when the loop stops or the draws run out.                               *)
(***************************************************************************)
RECURSIVE FireLoop(_, _)
FireLoop(acc, draws) ==
    IF Len(acc) = FireCount \/ draws = <<>>
    THEN acc
    ELSE LET d == Head(draws)
         IN  IF grid[d[1] + 1][d[2] + 1] = 1 /\ ~PyIn(Tup(d), acc)
             THEN FireLoop(Append(acc, Tup(d)), Tail(draws))
             ELSE FireLoop(acc, Tail(draws))

\* mutant: the list of the previous round is not emptied first
generate_fire_keep(lab, draws) ==
    [lab EXCEPT !.fire_coords = FireLoop(lab.fire_coords, draws)]

generate_fire(lab, draws) == [lab EXCEPT !.fire_coords = FireLoop(<<>>, draws)]

\* the draws let the loop of generate_fire terminate
FireComplete(draws) == Len(FireLoop(<<>>, draws)) = FireCount

\* Game.start_new_round: the new round counter, labyrinth and fire cells
start_new_round(r, lab, draws) ==
    LET lab1 == generate_fire(lab, draws)
    IN  [round |-> r + 1, labyrinth |-> lab1, fire_cells |-> lab1.fire_coords]

(***************************************************************************)
(* Hero.check_hero_health: the result, and its effect on the labyrinth.    *)
(***************************************************************************)
\* mutant: the blow also costs every other hero one health point
attack_all(hs, t) == [j \in 1..Len(hs) |-> [hs[j] EXCEPT !.health = @ - 1]]

\* Hero.attack on the hero at place t of the roster hs
attack(hs, t) == [hs EXCEPT ![t].health = @ - 1]

check_hero_health(h) == ~(h.health <= 0)

\* mutant: the key stays with the dead hero
DropKeyNever(h, lab) == lab

DropKey(h, lab) ==
    IF h.health <= 0 /\ h.has_key
    THEN [lab EXCEPT !.key = TRUE, !.key_coord = Tup(h.position)]
    ELSE lab

\* list.remove(current_hero): the roster without its i-th hero (1-based)
RemoveAt(hs, i) == [j \in 1..(Len(hs) - 1) |-> IF j < i THEN hs[j] ELSE hs[j + 1]]

(***************************************************************************)
(* Hero.check_near_hero and the menu hero_action builds from it.           *)
(***************************************************************************)
RECURSIVE NearFrom(_, _, _)
NearFrom(hs, i, j) ==
    IF j > Len(hs) THEN <<>>
    ELSE IF /\ hs[i].position = hs[j].position
            /\ hs[i].name # hs[j].name
            /\ hs[j].health > 0
         THEN <<j>> \o NearFrom(hs, i, j + 1)
         ELSE NearFrom(hs, i, j + 1)

\* mutant: a hero without health left is offered as a target too
RECURSIVE NearFromAnyHealth(_, _, _)
NearFromAnyHealth(hs, i, j) ==
    IF j > Len(hs) THEN <<>>
    ELSE IF hs[i].position = hs[j].position /\ hs[i].name # hs[j].name
         THEN <<j>> \o NearFromAnyHealth(hs, i, j + 1)
         ELSE NearFromAnyHealth(hs, i, j + 1)

near_heroes_any_health(hs, i) == NearFromAnyHealth(hs, i, 1)

\* near_heroes, as indices into the roster (1-based), in roster order
near_heroes(hs, i) == NearFrom(hs, i, 1)

\* mutant: the key can be picked up from any cell while it is present
check_near_hero_key_anywhere(hs, lab, i) ==
    [k \in 1..Len(near_heroes(hs, i)) |-> "attack"]
    \o (IF lab.key THEN <<"pick_up_key">> ELSE <<>>)

\* the contextual part of the action list
check_near_hero(hs, lab, i) ==
    [k \in 1..Len(near_heroes(hs, i)) |-> "attack"]
    \o (IF lab.key /\ PyEq(Tup(hs[i].position), lab.key_coord)
        THEN <<"pick_up_key">>
        ELSE IF PyIn(Tup(hs[i].position), [k \in 1..Len(hearts_coords) |-> Tup(hearts_coords[k])])
             THEN <<"heal">>
             ELSE <<>>)

static_action == <<"move", "self_heal", "save", "quit">>

\* the numbered menu of hero_action
Menu(hs, lab, i) == check_near_hero(hs, lab, i) \o static_action

(***************************************************************************)
(* Hero.hero_move.  dir is the direction typed ("NO" declines), confirm    *)
(* the answer to the retreat prompt.  The result says how the call ended:  *)
(* "true"/"false" (the value returned), "exit" (the golem let the hero     *)
(* pass) or "IndexError" (the exception raised by grid[new_x][new_y]).     *)
(***************************************************************************)
Directions == {"Up", "Down", "Left", "Right"}

Candidate(pos, dir) ==
    CASE dir = "Up"    -> <<pos[1] - 1, pos[2]>>
      [] dir = "Down"  -> <<pos[1] + 1, pos[2]>>
      [] dir = "Left"  -> <<pos[1], pos[2] - 1>>
      [] dir = "Right" -> <<pos[1], pos[2] + 1>>

hero_move(h, lab, fcells, dir, confirm) ==
    LET x == h.position[1]
        y == h.position[2]
        new == Candidate(h.position, dir)
        inside == 0 <= x /\ x < size_x /\ 0 <= y /\ y < size_y
    IN  IF dir = "NO" THEN [result |-> "false", hero |-> h]
        ELSE IF inside /\ ~GridIndexOK(new[1], new[2])
        THEN [result |-> "IndexError", hero |-> h]
        ELSE IF inside /\ GridAt(new[1], new[2]) # 0
        THEN IF GridAt(new[1], new[2]) = 1 /\ new = h.prev_position
             THEN IF confirm = "yes"
                  THEN [result |-> "true", hero |-> [h EXCEPT !.health = 0]]
                  ELSE [result |-> "false", hero |-> h]
             ELSE LET h1 == [h EXCEPT !.prev_position =
                                          IF GridAt(new[1], new[2]) = 1
                                          THEN h.position ELSE @,
                                      !.position = new]
                      h2 == IF PyIn(Tup(new), fcells)
                            THEN [h1 EXCEPT !.health = @ - 1] ELSE h1
                  IN  IF GolemEq(new, lab.golem_coord)
                      THEN IF h2.has_key
                           THEN [result |-> "exit", hero |-> h2]
                           ELSE [result |-> "true", hero |-> [h2 EXCEPT !.health = 0]]
                      ELSE [result |-> "true", hero |-> h2]
        ELSE [result |-> "true", hero |-> [h EXCEPT !.health = @ - 1]]

(***************************************************************************)
(* Hero.self_heal.                                                         *)
(***************************************************************************)
\* mutant: the health of the hero is not looked at
self_heal_any_health(h) ==
    IF h.count_heal > 0
    THEN [result |-> "true",
          hero |-> [h EXCEPT !.health = @ + 1, !.count_heal = @ - 1]]
    ELSE [result |-> "false", hero |-> h]

\* mutant: a refused self-heal still uses up one of the self-heals
self_heal_spends_when_refused(h) ==
    IF h.count_heal > 0 /\ h.health # FullHealth
    THEN [result |-> "true",
          hero |-> [h EXCEPT !.health = @ + 1, !.count_heal = @ - 1]]
    ELSE [result |-> "false",
          hero |-> [h EXCEPT !.count_heal = IF @ > 0 THEN @ - 1 ELSE @]]

self_heal(h) ==
    IF h.count_heal > 0 /\ h.health # FullHealth
    THEN [result |-> "true",
          hero |-> [h EXCEPT !.health = @ + 1, !.count_heal = @ - 1]]
    ELSE [result |-> "false", hero |-> h]

(***************************************************************************)
(* Serialization.  json.dump writes every tuple as a list, so a snapshot   *)
(* holds plain coordinates; the golem coordinate keeps its nesting depth.  *)
(***************************************************************************)
Hero_to_dict(h) ==
    [name |-> h.name, health |-> h.health, position |-> h.position,
     has_key |-> h.has_key, prev_position |-> h.prev_position,
     count_heal |-> h.count_heal]

Hero_from_dict(d) ==
    [name |-> d.name, health |-> d.health, has_key |-> d.has_key,
     position |-> d.position, prev_position |-> d.prev_position,
     count_heal |-> d.count_heal]

JsonCoords(cells) == [k \in 1..Len(cells) |-> cells[k].v]
LoadedCoords(cells) == [k \in 1..Len(cells) |-> Lst(cells[k])]

Labyrinth_to_dict(lab) ==
    [grid |-> grid,
     fire_coords |-> JsonCoords(lab.fire_coords),
     key_coord |-> lab.key_coord.v,
     golem_coord |-> [wrap |-> lab.golem_coord.wrap, c |-> lab.golem_coord.c.v],
     key |-> lab.key]

\* labyrinth.golem_coord = data["golem_coord"],   (the trailing comma builds
\* a one-element tuple around the loaded list)
Labyrinth_from_dict(d) ==
    [key |-> d.key,
     key_coord |-> Lst(d.key_coord),
     golem_coord |-> [wrap |-> d.golem_coord.wrap + 1, c |-> Lst(d.golem_coord.c)],
     fire_coords |-> LoadedCoords(d.fire_coords)]

\* the game_data dictionary of save_game
GameData(hs, r, ct, lab, fcells) ==
    [heroes |-> [k \in 1..Len(hs) |-> Hero_to_dict(hs[k])],
     round |-> r,
     current_turn |-> ct,
     labyrinth |-> Labyrinth_to_dict(lab),
     fire_cells |-> JsonCoords(fcells)]

\* the session load_game builds from a snapshot
LoadedGame(d) ==
    [heroes |-> [k \in 1..Len(d.heroes) |-> Hero_from_dict(d.heroes[k])],
     round |-> d.round,
     current_turn |-> d.current_turn,
     labyrinth |-> Labyrinth_from_dict(d.labyrinth),
     fire_cells |-> LoadedCoords(d.fire_cells)]

(***************************************************************************)
(* Inputs.                                                                 *)
(***************************************************************************)
HeroNames == <<"a", "b", "c", "d", "e", "f">>

\* names typed in a played session: the empty name, every name already in
\* the roster, and the next unused name
InputNames(hs) == {""} \cup {HeroNames[k] : k \in 1..(Len(hs) + 1)}

\* roster sizes typed in a played session
InputSizes == {0, 1, 2, MaxHeroes + 1}

\* sequences of random draws of generate_fire: each holds rejected draws (a
\* wall, the special floor, a repeated cell) and ends with four cells chosen
DrawStreams ==
    { << <<0, 0>>, <<3, 1>>, <<3, 1>>, <<2, 1>>, <<0, 7>>, <<3, 4>> >>,
      << <<1, 2>>, <<0, 6>>, <<1, 5>>, <<0, 6>>, <<2, 2>>, <<3, 1>> >> }

Answers == {"yes", "no"}

(***************************************************************************)
(* The program.                                                            *)
(***************************************************************************)
PcValues == {"start", "add_num", "add_name", "play", "loop", "await",
             "victory", "quit", "all_dead", "crashed"}

\* Snapshots left on disk by an earlier run of the program, each written by
\* save_game in a state a fresh session reaches (SavedStatesReached).
FireA == FireLoop(<<>>, << <<0, 0>>, <<3, 1>>, <<3, 1>>, <<2, 1>>, <<0, 7>>, <<3, 4>> >>)

\* one hero, saved in round 15 next to the golem, holding the key
SavedWithKey ==
    GameData(<< [name |-> "a", health |-> 4, has_key |-> TRUE,
                 position |-> <<0, 6>>, prev_position |-> <<0, 5>>,
                 count_heal |-> StartHeals] >>,
             15, 0,
             [NewLabyrinth EXCEPT !.key = FALSE, !.fire_coords = FireA],
             FireA)

\* one hero, saved in round 12 next to the golem, without the key
SavedWithoutKey ==
    GameData(<< [name |-> "a", health |-> 4, has_key |-> FALSE,
                 position |-> <<0, 6>>, prev_position |-> <<0, 5>>,
                 count_heal |-> StartHeals] >>,
             12, 0,
             [NewLabyrinth EXCEPT !.fire_coords = FireA],
             FireA)

\* two heroes, saved in round 1 by the second one after the first has moved
SavedBySecond ==
    GameData(<< [name |-> "a", health |-> 4, has_key |-> FALSE,
                 position |-> <<3, 1>>, prev_position |-> <<3, 0>>,
                 count_heal |-> StartHeals],
                NewHero("b") >>,
             1, 1,
             [NewLabyrinth EXCEPT !.fire_coords = FireA],
             FireA)

\* three heroes on the start cell, saved in round 2 by the second one; the
\* first one has been attacked twice and has hit a wall twice
SavedThree ==
    GameData(<< [NewHero("a") EXCEPT !.health = 1], NewHero("b"), NewHero("c") >>,
             2, 1,
             [NewLabyrinth EXCEPT !.fire_coords = FireA],
             FireA)

FireB == FireLoop(<<>>, << <<1, 2>>, <<0, 6>>, <<1, 5>>, <<0, 6>>, <<2, 2>>, <<3, 1>> >>)

\* two heroes on the key's cell, saved in round 7 by the second one; the first
\* one picked the key up in round 5, has been attacked twice and has hit the
\* wall above twice
SavedKeyHolder ==
    GameData(<< [name |-> "a", health |-> 1, has_key |-> TRUE,
                 position |-> KeyStart, prev_position |-> <<2, 1>>,
                 count_heal |-> StartHeals],
                [name |-> "b", health |-> FullHealth, has_key |-> FALSE,
                 position |-> KeyStart, prev_position |-> <<2, 1>>,
                 count_heal |-> StartHeals] >>,
             7, 1,
             [NewLabyrinth EXCEPT !.key = FALSE, !.fire_coords = FireB],
             FireB)

\* three heroes on the key's cell, saved in round 7 by the first one before
\* acting; the second one picked the key up in round 5, has been attacked
\* three times and has hit the wall above once, the third one has hit it once
SavedKeyTrio ==
    GameData(<< [name |-> "a", health |-> FullHealth, has_key |-> FALSE,
                 position |-> KeyStart, prev_position |-> <<2, 1>>,
                 count_heal |-> StartHeals],
                [name |-> "b", health |-> 1, has_key |-> TRUE,
                 position |-> KeyStart, prev_position |-> <<2, 1>>,
                 count_heal |-> StartHeals],
                [name |-> "c", health |-> 4, has_key |-> FALSE,
                 position |-> KeyStart, prev_position |-> <<2, 1>>,
                 count_heal |-> StartHeals] >>,
             7, 0,
             [NewLabyrinth EXCEPT !.key = FALSE, !.fire_coords = FireB],
             FireB)

InitialSaves ==
    {NoSave, SavedWithKey, SavedWithoutKey, SavedBySecond, SavedThree,
     SavedKeyHolder, SavedKeyTrio}

Init ==
    /\ heroes = <<>>
    /\ round = 0
    /\ current_turn = 0
    /\ fire_cells = <<>>
    /\ labyrinth = NewLabyrinth
    /\ save_file \in InitialSaves
    /\ pc = "start"
    /\ to_add = 0
    /\ call = NoCall
    /\ saves = 0
    /\ turns = 0

\* __main__: check_save finds no saved game for the login
NoSavedGame ==
    /\ pc = "start"
    /\ save_file = NoSave
    /\ pc' = "add_num"
    /\ UNCHANGED <<heroes, round, current_turn, fire_cells, labyrinth, save_file, to_add, call, saves, turns>>

\* __main__: check_save answered "no": the saved game is deleted
DeclineSavedGame ==
    /\ pc = "start"
    /\ save_file # NoSave
    /\ save_file' = NoSave
    /\ pc' = "add_num"
    /\ UNCHANGED <<heroes, round, current_turn, fire_cells, labyrinth, to_add, call, saves, turns>>

\* __main__: check_save answered "yes", then Game.load_game
load_game ==
    /\ pc = "start"
    /\ save_file # NoSave
    /\ LET g == LoadedGame(save_file)
       IN  /\ heroes' = g.heroes
           /\ round' = g.round
           /\ current_turn' = g.current_turn
           /\ fire_cells' = g.fire_cells
           /\ labyrinth' = g.labyrinth
    /\ pc' = "play"
    /\ UNCHANGED <<save_file, to_add, call, saves, turns>>

\* Game.add_heroes, line 56: the number typed is accepted
ValidSize(n) == 0 < n /\ n <= MaxHeroes

\* mutant: a name already in the roster is accepted
ValidNameNotEmpty(name, hs) == name # ""

\* Game.add_heroes, line 60: the name typed is accepted
ValidName(name, hs) ==
    name # "" /\ ~(\E k \in 1..Len(hs) : hs[k].name = name)

\* Game.add_heroes: the number of heroes is typed
AskNumber(n) ==
    /\ pc = "add_num"
    /\ IF ValidSize(n)
       THEN pc' = "add_name" /\ to_add' = n
       ELSE UNCHANGED <<pc, to_add>>
    /\ UNCHANGED <<heroes, round, current_turn, fire_cells, labyrinth, save_file, call, saves, turns>>

\* Game.add_heroes: a hero's name is typed
AskName(name) ==
    /\ pc = "add_name"
    /\ IF ValidName(name, heroes)
       THEN /\ heroes' = Append(heroes, NewHero(name))
            /\ to_add' = to_add - 1
            /\ pc' = IF to_add = 1 THEN "play" ELSE "add_name"
       ELSE UNCHANGED <<heroes, to_add, pc>>
    /\ UNCHANGED <<round, current_turn, fire_cells, labyrinth, save_file, call, saves, turns>>

\* the assignments of start_new_round
StartRound(lab, draws) ==
    LET s == start_new_round(round, lab, draws)
    IN  /\ round' = s.round
        /\ labyrinth' = s.labyrinth
        /\ fire_cells' = s.fire_cells

\* Game.play, lines 150-151
PlayEntry(draws) ==
    /\ pc = "play"
    /\ FireComplete(draws)
    /\ IF current_turn = 0
       THEN StartRound(labyrinth, draws)
       ELSE UNCHANGED <<round, labyrinth, fire_cells>>
    /\ pc' = "loop"
    /\ UNCHANGED <<heroes, current_turn, save_file, to_add, call, saves, turns>>

\* mutant: the turn index moves on when a dead hero is removed at the head of
\* the loop
TurnStartSkipsNext ==
    /\ pc = "loop"
    /\ IF heroes = <<>>
       THEN pc' = "all_dead" /\ UNCHANGED <<heroes, labyrinth, current_turn>>
       ELSE IF ~IndexOK(current_turn, Len(heroes))
       THEN pc' = "crashed" /\ UNCHANGED <<heroes, labyrinth, current_turn>>
       ELSE LET h == heroes[current_turn + 1]
            IN  IF check_hero_health(h)
                THEN pc' = "await" /\ UNCHANGED <<heroes, labyrinth, current_turn>>
                ELSE /\ labyrinth' = DropKey(h, labyrinth)
                     /\ heroes' = RemoveAt(heroes, current_turn + 1)
                     /\ current_turn' = IF Len(heroes) = 1 THEN 0
                                        ELSE (current_turn + 1) % (Len(heroes) - 1)
                     /\ pc' = "loop"
    /\ UNCHANGED <<round, fire_cells, save_file, to_add, call, saves, turns>>

\* Game.play, lines 153-157 and 170-176: the head of the outer loop
TurnStart ==
    /\ pc = "loop"
    /\ IF heroes = <<>>
       THEN pc' = "all_dead" /\ UNCHANGED <<heroes, labyrinth>>
       ELSE IF ~IndexOK(current_turn, Len(heroes))
       THEN pc' = "crashed" /\ UNCHANGED <<heroes, labyrinth>>
       ELSE LET h == heroes[current_turn + 1]
            IN  IF check_hero_health(h)
                THEN pc' = "await" /\ UNCHANGED <<heroes, labyrinth>>
                ELSE /\ labyrinth' = DropKey(h, labyrinth)
                     /\ heroes' = RemoveAt(heroes, current_turn + 1)
                     /\ pc' = "loop"
    /\ UNCHANGED <<round, current_turn, fire_cells, save_file, to_add, call, saves, turns>>

\* Game.play, lines 161-167, after hero_action returned True with the
\* roster hs and the labyrinth lab; D holds the draws a new round may take
TurnEnd(hs, lab, D) ==
    LET h == hs[current_turn + 1]
    IN  /\ IF check_hero_health(h)
           THEN /\ heroes' = hs
                /\ current_turn' = (current_turn + 1) % Len(hs)
                /\ IF (current_turn + 1) % Len(hs) = 0 /\ hs # <<>>
                   THEN \E draws \in D : FireComplete(draws) /\ StartRound(lab, draws)
                   ELSE labyrinth' = lab /\ UNCHANGED <<round, fire_cells>>
           ELSE /\ heroes' = RemoveAt(hs, current_turn + 1)
                /\ labyrinth' = DropKey(h, lab)
                /\ UNCHANGED <<current_turn, round, fire_cells>>
        /\ pc' = "loop"
        /\ turns' = turns + 1
        /\ UNCHANGED <<save_file, to_add, call, saves>>

\* the hero whose turn it is, and the menu shown to it
Me == current_turn + 1
CurrentMenu == Menu(heroes, labyrinth, Me)
Chosen(n, what) == n \in 1..Len(CurrentMenu) /\ CurrentMenu[n] = what

\* the snapshot on disk was written by this run of the program
SavedThisRun == saves > 0

\* the session was loaded from a snapshot (load_game wraps the golem
\* coordinate once more, a new labyrinth has it plain)
LoadedThisRun == labyrinth.golem_coord.wrap > 0

\* the rounds explored in a run that has not saved the game: a fresh session
\* up to MaxSoloRound rounds with one hero left and MaxRound rounds with more,
\* a loaded session MaxAfterLoad rounds from the round of its snapshot
RoundCap ==
    IF LoadedThisRun THEN save_file.round + MaxAfterLoad
    ELSE IF Len(heroes) <= 1 THEN MaxSoloRound ELSE MaxRound

\* a hero chooses an action within the part of the run explored: up to the
\* round limit before the game is saved, MaxAfterSave turns after a save
Awaiting ==
    /\ pc = "await"
    /\ IF SavedThisRun THEN turns < MaxAfterSave ELSE round < RoundCap

\* hero_action: an attack option is chosen
Attack(n) ==
    /\ Awaiting
    /\ Chosen(n, "attack")
    /\ LET t == near_heroes(heroes, Me)[n]
       IN  TurnEnd(attack(heroes, t), labyrinth, DrawStreams)

\* mutant: the key stays on the floor when a hero takes it
PickUpKeyLeavesKey(n) ==
    /\ Awaiting
    /\ Chosen(n, "pick_up_key")
    /\ TurnEnd([heroes EXCEPT ![Me].has_key = TRUE], labyrinth, DrawStreams)

\* hero_action: "pick up the key" is chosen
PickUpKey(n) ==
    /\ Awaiting
    /\ Chosen(n, "pick_up_key")
    /\ TurnEnd([heroes EXCEPT ![Me].has_key = TRUE],
               [labyrinth EXCEPT !.key = FALSE], DrawStreams)

\* mutant: refilling at full health counts as an action
refill_health_always(h) ==
    [result |-> "true", hero |-> [h EXCEPT !.health = FullHealth]]

\* hero_action, lines 464-470: the branch of "refill health"; at full health
\* no value is returned and the menu is shown again
refill_health(h) ==
    IF h.health = FullHealth
    THEN [result |-> "again", hero |-> h]
    ELSE [result |-> "true", hero |-> [h EXCEPT !.health = FullHealth]]

\* hero_action: "refill health" (at a heart) is chosen
HealAtStation(n) ==
    /\ Awaiting
    /\ Chosen(n, "heal")
    /\ LET r == refill_health(heroes[Me])
       IN  IF r.result = "true"
           THEN TurnEnd([heroes EXCEPT ![Me] = r.hero], labyrinth, DrawStreams)
           ELSE UNCHANGED vars

\* hero_action: "move the hero" is chosen, then hero_move with the direction
\* dir and the answer confirm to the retreat prompt
MoveTo(dir, confirm, D) ==
    LET m == hero_move(heroes[Me], labyrinth, fire_cells, dir, confirm)
    IN  CASE m.result = "true" ->
               TurnEnd([heroes EXCEPT ![Me] = m.hero], labyrinth, D)
          [] m.result = "false" -> UNCHANGED vars
          [] m.result = "exit" ->
               /\ heroes' = [heroes EXCEPT ![Me] = m.hero]
               /\ pc' = "victory"
               /\ UNCHANGED <<round, current_turn, fire_cells, labyrinth,
                              save_file, to_add, call, saves, turns>>
          [] m.result = "IndexError" ->
               /\ pc' = "crashed"
               /\ UNCHANGED <<heroes, round, current_turn, fire_cells,
                              labyrinth, save_file, to_add, call, saves, turns>>

Move(n) ==
    /\ Awaiting
    /\ Chosen(n, "move")
    /\ \E dir \in Directions \cup {"NO"}, confirm \in Answers :
          MoveTo(dir, confirm, DrawStreams)

\* hero_action: "self-heal" is chosen, then self_heal
SelfHeal(n) ==
    /\ Awaiting
    /\ Chosen(n, "self_heal")
    /\ LET r == self_heal(heroes[Me])
       IN  IF r.result = "true"
           THEN TurnEnd([heroes EXCEPT ![Me] = r.hero], labyrinth, DrawStreams)
           ELSE UNCHANGED vars

\* hero_action: "save the game" is chosen, then Game.save_game; the same hero
\* is asked again
save_game(n) ==
    /\ pc = "await" /\ saves < MaxSaves
    /\ turns <= MaxBeforeSave
    /\ Chosen(n, "save")
    /\ save_file' = GameData(heroes, round, current_turn, labyrinth, fire_cells)
    /\ saves' = saves + 1
    /\ turns' = 0
    /\ UNCHANGED <<heroes, round, current_turn, fire_cells, labyrinth, pc, to_add, call>>

\* hero_action: "leave the game" is chosen
Quit(n) ==
    /\ pc = "await"
    /\ Chosen(n, "quit")
    /\ pc' = "quit"
    /\ UNCHANGED <<heroes, round, current_turn, fire_cells, labyrinth, save_file, to_add, call, saves, turns>>

\* hero_action: a number outside the menu is typed; the menu is shown again
BadChoice(n) ==
    /\ pc = "await"
    /\ ~(n \in 1..Len(CurrentMenu))
    /\ UNCHANGED vars

MenuNumbers == 0..(MaxHeroes + Len(static_action) + 1)

Next ==
    \/ NoSavedGame
    \/ DeclineSavedGame
    \/ load_game
    \/ \E n \in InputSizes : AskNumber(n)
    \/ \E name \in InputNames(heroes) : AskName(name)
    \/ \E draws \in DrawStreams : PlayEntry(draws)
    \/ TurnStart
    \/ \E n \in MenuNumbers : Attack(n)
    \/ \E n \in MenuNumbers : PickUpKey(n)
    \/ \E n \in MenuNumbers : HealAtStation(n)
    \/ \E n \in MenuNumbers : Move(n)
    \/ \E n \in MenuNumbers : SelfHeal(n)
    \/ \E n \in MenuNumbers : save_game(n)
    \/ \E n \in MenuNumbers : Quit(n)
    \/ \E n \in MenuNumbers : BadChoice(n)

Spec == Init /\ [][Next]_vars

(***************************************************************************)
(* Hazard generation on its own: play is entered with one hero, in a fresh *)
(* session or in one loaded from SavedWithoutKey, and the hero ends each   *)
(* round by walking into the wall above it.  The draws at the entry of     *)
(* play are all sequences of MaxDraws cells of FireCells: a wall, the      *)
(* special floor and five floor cells, one of which burns in the loaded    *)
(* snapshot.  The draws of the later rounds are those of DrawStreams.      *)
(***************************************************************************)
MaxDraws == 5

FireCells == { <<0, 0>>, <<1, 2>>, <<3, 1>>, <<3, 3>>, <<3, 5>>, <<2, 5>>, <<0, 5>> }
FireDraws == [1..MaxDraws -> FireCells]

InitFire ==
    /\ pc = "play"
    /\ to_add = 0
    /\ call = NoCall
    /\ saves = 0
    /\ turns = 0
    /\ \/ /\ save_file = NoSave
          /\ heroes = <<NewHero("a")>>
          /\ round = 0
          /\ current_turn = 0
          /\ fire_cells = <<>>
          /\ labyrinth = NewLabyrinth
       \/ /\ save_file = SavedWithoutKey
          /\ LET g == LoadedGame(SavedWithoutKey)
             IN  /\ heroes = g.heroes
                 /\ round = g.round
                 /\ current_turn = g.current_turn
                 /\ fire_cells = g.fire_cells
                 /\ labyrinth = g.labyrinth

HitWallAbove ==
    /\ Awaiting
    /\ Chosen(1, "move")
    /\ MoveTo("Up", "no", DrawStreams)

NextFire ==
    \/ \E draws \in FireDraws : PlayEntry(draws)
    \/ TurnStart
    \/ HitWallAbove

SpecFire == InitFire /\ [][NextFire]_vars

(***************************************************************************)
(* Roster construction on its own: a fresh session at the prompt for the   *)
(* number of heroes; every number from -1 to MaxHeroes + 1 and every name  *)
(* of HeroNames, or the empty name, can be typed at any prompt.            *)
(***************************************************************************)
RosterSizes == (0 - 1)..(MaxHeroes + 1)
RosterNames == {""} \cup {HeroNames[k] : k \in 1..Len(HeroNames)}

InitRoster ==
    /\ heroes = <<>>
    /\ round = 0
    /\ current_turn = 0
    /\ fire_cells = <<>>
    /\ labyrinth = NewLabyrinth
    /\ save_file = NoSave
    /\ pc = "add_num"
    /\ to_add = 0
    /\ call = NoCall
    /\ saves = 0
    /\ turns = 0

NextRoster ==
    \/ \E n \in RosterSizes : AskNumber(n)
    \/ \E name \in RosterNames : AskName(name)

SpecRoster == InitRoster /\ [][NextRoster]_vars

(***************************************************************************)
(* Labyrinth.is_valid_move called on its own, on a new Labyrinth, with     *)
(* every pair of integers up to Margin cells outside the grid.  The method *)
(* reads grid[y][x]; its result is "true", "false" or "IndexError".        *)
(***************************************************************************)
Margin == 2

is_valid_move(x, y) ==
    IF 0 <= x /\ x < size_x /\ 0 <= y /\ y < size_y
    THEN IF GridIndexOK(y, x)
         THEN IF GridAt(y, x) \in {1, 2}
              THEN "true"
              ELSE "false"
         ELSE "IndexError"
    ELSE "false"

ValidMoveCalls ==
    {[fn |-> "is_valid_move", args |-> <<x, y>>, done |-> FALSE] :
        x \in (0 - Margin)..(size_x - 1 + Margin),
        y \in (0 - Margin)..(size_y - 1 + Margin)}

InitValidMove ==
    /\ heroes = <<>>
    /\ round = 0
    /\ current_turn = 0
    /\ fire_cells = <<>>
    /\ labyrinth = NewLabyrinth
    /\ save_file = NoSave
    /\ pc = "start"
    /\ to_add = 0
    /\ call \in ValidMoveCalls
    /\ saves = 0
    /\ turns = 0

CallIsValidMove ==
    /\ call.fn = "is_valid_move"
    /\ ~call.done
    /\ call' = [fn |-> call.fn, args |-> call.args, done |-> TRUE,
                ret |-> is_valid_move(call.args[1], call.args[2])]
    /\ UNCHANGED <<heroes, round, current_turn, fire_cells, labyrinth,
                   save_file, pc, to_add, saves, turns>>

NextValidMove == CallIsValidMove

SpecValidMove == InitValidMove /\ [][NextValidMove]_vars

(***************************************************************************)
(* Hero.check_near_hero called on its own for the hero whose turn it is,   *)
(* in a session of three heroes.  Every hero stands on the start cell, on  *)
(* the key's first cell or on a heart; the heroes not acting may be dead   *)
(* and not yet removed; the key is held by a hero, lies on its first cell  *)
(* (as constructed, or as load_game restores it) or was dropped on the     *)
(* heart.  The result is the pair returned: the contextual actions and the *)
(* heroes that can be attacked (their places in the roster).               *)
(***************************************************************************)
MenuCells == {StartPosition, KeyStart, hearts_coords[1]}
MenuHealths == {0, 3}
MenuKeys ==
    {[NewLabyrinth EXCEPT !.key = FALSE],
     NewLabyrinth,
     [NewLabyrinth EXCEPT !.key_coord = Lst(KeyStart)],
     [NewLabyrinth EXCEPT !.key_coord = Tup(hearts_coords[1])]}

InitMenu ==
    /\ round = 1
    /\ fire_cells = FireA
    /\ save_file = NoSave
    /\ pc = "await"
    /\ to_add = 0
    /\ call = [fn |-> "check_near_hero", done |-> FALSE]
    /\ saves = 0
    /\ turns = 0
    /\ current_turn \in 0..2
    /\ \E lab \in MenuKeys : labyrinth = [lab EXCEPT !.fire_coords = FireA]
    /\ \E pa \in MenuCells, pb \in MenuCells, pc3 \in MenuCells,
          ha \in MenuHealths, hb \in MenuHealths, hc \in MenuHealths :
          /\ heroes = << [NewHero("a") EXCEPT !.position = pa, !.health = ha],
                         [NewHero("b") EXCEPT !.position = pb, !.health = hb],
                         [NewHero("c") EXCEPT !.position = pc3, !.health = hc] >>
          /\ heroes[current_turn + 1].health > 0

CallCheckNearHero ==
    /\ call.fn = "check_near_hero"
    /\ ~call.done
    /\ call' = [fn |-> call.fn, done |-> TRUE,
                ret |-> [action |-> check_near_hero(heroes, labyrinth, Me),
                         near_heroes |-> near_heroes(heroes, Me)]]
    /\ UNCHANGED <<heroes, round, current_turn, fire_cells, labyrinth,
                   save_file, pc, to_add, saves, turns>>

NextMenu == CallCheckNearHero

SpecMenu == InitMenu /\ [][NextMenu]_vars

(***************************************************************************)
(* Claims.                                                                 *)
(***************************************************************************)
InPlay == pc \in {"loop", "await"}

\* the numbers under which the menu of the active hero offers the action what
Options(what) ==
    IF pc = "await"
    THEN LET menu == CurrentMenu
         IN  {n \in 1..Len(menu) : menu[n] = what}
    ELSE {}

\* C1: while Game.play runs with a non-empty roster, the turn index is less
\* than the roster length, also after a hero has been removed.
C1_TurnIndexInRoster ==
    (InPlay /\ heroes # <<>>) => current_turn < Len(heroes)

\* the candidate cell is outside the 4 x 8 grid or has terrain code 0
Blocked(pos, dir) ==
    LET c == Candidate(pos, dir)
    IN  \/ ~(0 <= c[1] /\ c[1] < size_x /\ 0 <= c[2] /\ c[2] < size_y)
        \/ grid[c[1] + 1][c[2] + 1] = 0

\* the turn of the hero at Me has been consumed and left it as h: it stays in
\* the roster if alive and is removed by the liveness check if not
TurnConsumedWith(h) ==
    /\ pc' = "loop"
    /\ heroes' = IF h.health > 0
                 THEN [heroes EXCEPT ![Me] = h]
                 ELSE RemoveAt(heroes, Me)

\* C2: a move of a living hero into a cell outside the grid or of terrain
\* code 0 leaves its position and previous position unchanged, costs exactly
\* one health point and consumes the turn.
C2_BlockedMoveCostsOneHealth ==
    [][\A dir \in Directions, confirm \in Answers :
          (/\ Awaiting
           /\ Blocked(heroes[Me].position, dir)
           /\ MoveTo(dir, confirm, DrawStreams))
          => TurnConsumedWith([heroes[Me] EXCEPT !.health = @ - 1])]_vars

\* C3: every hero of the roster has a health between 0 and 5.
C3_HealthInRange ==
    \A i \in 1..Len(heroes) : heroes[i].health \in 0..FullHealth

\* C3 witness: a hero brought to 0 by an attack is still in the roster while
\* another hero is awaiting its action
C3_Witness ==
    /\ pc = "await"
    /\ \E i \in 1..Len(heroes) : heroes[i].health = 0

\* a hazard list: exactly four coordinates, pairwise distinct, each inside the
\* grid and of terrain code 1
FireOK(cells) ==
    /\ Len(cells) = FireCount
    /\ \A k \in 1..Len(cells) :
          /\ cells[k].v[1] \in 0..(size_x - 1)
          /\ cells[k].v[2] \in 0..(size_y - 1)
          /\ grid[cells[k].v[1] + 1][cells[k].v[2] + 1] = 1
          /\ \A j \in 1..Len(cells) : j # k => cells[j].v # cells[k].v

\* the cells the coming round start can draw: those of FireCells at the
\* entry of play, those of DrawStreams at the end of a round
DrawnNow ==
    IF pc = "play" THEN FireCells
    ELSE UNION {{s[k] : k \in 1..Len(s)} : s \in DrawStreams}

\* C4: after every start_new_round the hazard set (fire_coords and
\* fire_cells) consists of exactly four distinct grid cells of terrain code 1,
\* and every one of them was drawn in this round: nothing is carried over.
C4_FireAfterRoundStart ==
    [][round' = round + 1 =>
          /\ FireOK(fire_cells')
          /\ labyrinth'.fire_coords = fire_cells'
          /\ \A k \in 1..Len(fire_cells') :
                fire_cells'[k] \in {Tup(c) : c \in DrawnNow}]_vars

\* C4 witness: a loaded session has started its round; the new hazard list
\* differs from the loaded one and holds a cell that was drawn again
C4_Witness ==
    /\ save_file = SavedWithoutKey
    /\ round = SavedWithoutKey.round + 1
    /\ Len(fire_cells) = FireCount
    /\ JsonCoords(fire_cells) # SavedWithoutKey.fire_cells
    /\ PyIn(Tup(<<3, 1>>), fire_cells)

\* the hero at Me moves in direction dir from another cell onto the golem
\* coordinate (0,7)
StepsOntoGolem(dir, confirm) ==
    /\ Awaiting
    /\ heroes[Me].position # GolemCell
    /\ Candidate(heroes[Me].position, dir) = GolemCell
    /\ hero_move(heroes[Me], labyrinth, fire_cells, dir, confirm).result
          \in {"true", "exit"}
    /\ MoveTo(dir, confirm, DrawStreams)

\* C5: a move of a hero holding the key onto the golem coordinate ends the
\* session in victory and changes the health of no hero, whatever the hazard
\* set is.
C5_VictoryWithKey ==
    [][\A dir \in Directions, confirm \in Answers :
          (Awaiting /\ heroes[Me].has_key /\ StepsOntoGolem(dir, confirm))
          => (/\ pc' = "victory"
              /\ Len(heroes') = Len(heroes)
              /\ \A i \in 1..Len(heroes) :
                    heroes'[i].health = heroes[i].health)]_vars

\* C6: a move of a hero without the key onto the golem coordinate leaves it
\* with health 0, consumes the turn, and the liveness check that follows
\* removes the hero from the roster.
C6_DeathWithoutKey ==
    [][\A dir \in Directions, confirm \in Answers :
          (Awaiting /\ ~heroes[Me].has_key /\ StepsOntoGolem(dir, confirm))
          => (/\ hero_move(heroes[Me], labyrinth, fire_cells, dir,
                           confirm).hero.health = 0
              /\ pc' = "loop"
              /\ heroes' = RemoveAt(heroes, Me))]_vars

\* what save_game writes for the session in memory
Snapshot == GameData(heroes, round, current_turn, labyrinth, fire_cells)

\* what save_game writes for the session load_game restores from d
Resaved(d) ==
    LET g == LoadedGame(d)
    IN  GameData(g.heroes, g.round, g.current_turn, g.labyrinth, g.fire_cells)

\* C7: for every session state in play, saving, loading the snapshot and
\* saving again gives a snapshot identical to the first one.
C7_SaveLoadSave ==
    pc = "await" => Resaved(Snapshot) = Snapshot

\* C8: self_heal is applied iff the hero has self-heals left and a health
\* below 5; applied, it adds 1 to the health, takes 1 from the count and
\* consumes the turn; otherwise nothing changes and the same hero stays
\* active.  The count of every hero is in 0..3 and never increases.
C8_SelfHeal ==
    [][/\ \A n \in Options("self_heal") :
             SelfHeal(n) =>
                IF heroes[Me].count_heal > 0 /\ heroes[Me].health < FullHealth
                THEN TurnConsumedWith([heroes[Me] EXCEPT !.health = @ + 1,
                                                         !.count_heal = @ - 1])
                ELSE UNCHANGED vars
       /\ \A j \in 1..Len(heroes') :
             /\ heroes'[j].count_heal \in 0..StartHeals
             /\ \A i \in 1..Len(heroes) :
                   heroes[i].name = heroes'[j].name
                   => heroes'[j].count_heal <= heroes[i].count_heal]_vars

\* C8 witness: the active hero has used its three self-heals and is hurt, so
\* that a further self_heal is refused
C8_Witness ==
    /\ pc = "await"
    /\ heroes[Me].count_heal = 0
    /\ heroes[Me].health < FullHealth

\* C9 as stated: no hero is awaiting its action while a hero without health
\* is in the roster (an attacked hero brought to 0 has been removed, and its
\* key dropped, when the attacker's turn is complete).
C9_DeadTargetGoneAfterAttack ==
    pc = "await" => \A i \in 1..Len(heroes) : heroes[i].health > 0

\* the liveness check at the head of the loop finds the hero at Me dead
DeadHeroUp ==
    /\ pc = "loop"
    /\ current_turn < Len(heroes)
    /\ heroes[Me].health <= 0

\* C9, amended: an attack is only offered against a living hero and leaves
\* its target in the roster, also with health 0; the hero awaiting its action
\* is alive; a dead hero is removed when its own turn comes up, before it
\* acts, and if it holds the key the key is then present at its position.
C9_DeadTargetGoneAtOwnTurn ==
    [][/\ pc' = "await" => heroes'[current_turn' + 1].health > 0
       /\ \A n \in Options("attack") :
             (Awaiting /\ Chosen(n, "attack") /\ Attack(n)) =>
                LET t == near_heroes(heroes, Me)[n]
                IN  /\ t # Me /\ heroes[t].health > 0
                    /\ heroes' = [heroes EXCEPT ![t].health = @ - 1]
       /\ DeadHeroUp =>
             /\ pc' = "loop"
             /\ heroes' = RemoveAt(heroes, Me)
             /\ labyrinth' =
                   IF heroes[Me].has_key
                   THEN [labyrinth EXCEPT !.key = TRUE,
                                          !.key_coord = Tup(heroes[Me].position)]
                   ELSE labyrinth]_vars

\* C9 witness: the holder of the key was killed by an attack and has been
\* removed at its own turn; the key lies where it stood and the attacker is
\* awaiting its action
C9_Witness ==
    /\ save_file = SavedKeyHolder
    /\ pc = "await"
    /\ Len(heroes) = 1 /\ heroes[1].name = "b"
    /\ labyrinth.key
    /\ labyrinth.key_coord = Tup(KeyStart)

\* the names of the roster hs
Names(hs) == {hs[k].name : k \in 1..Len(hs)}

\* C10: add_heroes accepts every size 1..5 and then every non-empty name not
\* yet in the roster, until the requested number of heroes is there; a size
\* outside 1..5 and an empty or duplicate name lead to the same prompt again
\* with the roster unchanged.  The roster never has more than 5 heroes, and
\* their names are pairwise distinct and non-empty.
C10_RosterConstruction ==
    [][/\ \A n \in RosterSizes :
             AskNumber(n) =>
                /\ heroes' = heroes
                /\ IF n \in 1..MaxHeroes
                   THEN pc' = "add_name" /\ to_add' = n
                   ELSE pc' = "add_num"
       /\ \A name \in RosterNames :
             AskName(name) =>
                IF name # "" /\ name \notin Names(heroes)
                THEN /\ heroes' = Append(heroes, NewHero(name))
                     /\ to_add' = to_add - 1
                     /\ pc' = IF to_add' = 0 THEN "play" ELSE "add_name"
                ELSE heroes' = heroes /\ pc' = "add_name" /\ to_add' = to_add
       /\ Len(heroes') + to_add' <= MaxHeroes
       /\ Cardinality(Names(heroes')) = Len(heroes')
       /\ "" \notin Names(heroes')]_vars

\* C10 witness: a roster of five heroes has been built
C10_Witness ==
    pc = "play" /\ Len(heroes) = MaxHeroes

\* C11: on entering play, a fresh session starts round 1 with four hazard
\* cells before any hero acts; a session resumed from a snapshot of round k
\* keeps round k and the saved hazard list until the first hero acts, also
\* when the snapshot was saved with turn index 0.
C11_RoundStartOnEntry ==
    [][(pc = "play" /\ pc' = "loop") =>
          IF save_file = NoSave
          THEN round' = 1 /\ Len(fire_cells') = FireCount
          ELSE /\ round' = save_file.round
               /\ fire_cells' = LoadedCoords(save_file.fire_cells)]_vars

\* C12: is_valid_move(x, y), x the row and y the column, returns true iff
\* 0 <= x < 4, 0 <= y < 8 and the terrain code of grid[x][y] is 1 or 2, and
\* false, without failing, for every other pair.
C12_IsValidMove ==
    (call.fn = "is_valid_move" /\ call.done) =>
        LET x == call.args[1]
            y == call.args[2]
        IN  call.ret = IF /\ 0 <= x /\ x < size_x
                          /\ 0 <= y /\ y < size_y
                          /\ grid[x + 1][y + 1] \in {1, 2}
                       THEN "true"
                       ELSE "false"

\* the members of the sequence q
Range(q) == {q[k] : k \in 1..Len(q)}

\* C13: the contextual actions offered to the active hero are exactly one
\* attack option for each other hero at the same position with health > 0,
\* pick-up-key iff the key is present and the hero is at the key coordinate,
\* and heal-at-station iff the hero is at a heart coordinate, also when a
\* dropped key lies on that heart.
C13_ContextualActions ==
    (call.fn = "check_near_hero" /\ call.done) =>
        LET me == heroes[Me]
            targets == {j \in 1..Len(heroes) :
                          /\ j # Me
                          /\ heroes[j].position = me.position
                          /\ heroes[j].health > 0}
            offered == call.ret.action
        IN  /\ Range(call.ret.near_heroes) = targets
            /\ Len(call.ret.near_heroes) = Cardinality(targets)
            /\ Cardinality({k \in 1..Len(offered) : offered[k] = "attack"})
                  = Cardinality(targets)
            /\ "pick_up_key" \in Range(offered)
                  <=> (labyrinth.key /\ labyrinth.key_coord.v = me.position)
            /\ "heal" \in Range(offered)
                  <=> me.position \in Range(hearts_coords)

\* the target of the attack option numbered n
Target(n) == near_heroes(heroes, Me)[n]

\* an attack on Target(n): its health drops by 1, no other field of any hero
\* and nothing of the key changes, and the attacker's turn is consumed
AttackEffect(n) ==
    /\ Target(n) # Me
    /\ heroes' = [heroes EXCEPT ![Target(n)].health = @ - 1]
    /\ labyrinth'.key = labyrinth.key
    /\ labyrinth'.key_coord = labyrinth.key_coord
    /\ pc' = "loop"
    /\ current_turn' = (current_turn + 1) % Len(heroes)

\* C14 as stated: an attack lowers the health of its target by 1, consumes
\* the attacker's turn and changes nothing else; in particular the hazard set
\* and the round counter are unchanged.
C14_AttackFrame ==
    [][\A n \in Options("attack") :
          (Awaiting /\ Chosen(n, "attack") /\ Attack(n)) =>
             /\ AttackEffect(n)
             /\ round' = round
             /\ fire_cells' = fire_cells
             /\ labyrinth' = labyrinth]_vars

\* C14, amended: an attack lowers the health of its target by 1, consumes
\* the attacker's turn and changes no other field of any hero and nothing of
\* the key; the round counter and the hazard set are unchanged unless the
\* attacker is the last hero in turn order, when the round that starts at
\* the end of its turn adds 1 to the counter and redraws the hazards.
C14_AttackFrameUpToRoundStart ==
    [][\A n \in Options("attack") :
          (Awaiting /\ Chosen(n, "attack") /\ Attack(n)) =>
             /\ AttackEffect(n)
             /\ IF current_turn + 1 < Len(heroes)
                THEN /\ round' = round
                     /\ fire_cells' = fire_cells
                     /\ labyrinth' = labyrinth
                ELSE /\ round' = round + 1
                     /\ FireOK(fire_cells')
                     /\ labyrinth' = [labyrinth EXCEPT !.fire_coords = fire_cells']]_vars

\* C14 witness: in the session of SavedThree the last hero c has attacked b
\* (b had walked into a wall before) and round 3 has started
C14_Witness ==
    /\ save_file = SavedThree
    /\ round = 3 /\ current_turn = 0 /\ pc = "loop"
    /\ Len(heroes) = 3
    /\ heroes[2].health = 3
    /\ heroes[3].health = FullHealth

\* C15: the key is picked up only by the active hero, standing on the key
\* coordinate while the key is present; afterwards that hero holds the key,
\* the key is not present, no other hero has changed and the turn is
\* consumed.
C15_PickUpKey ==
    [][/\ \A n \in Options("pick_up_key") :
             (Awaiting /\ Chosen(n, "pick_up_key") /\ PickUpKey(n)) =>
                /\ labyrinth.key
                /\ labyrinth.key_coord.v = heroes[Me].position
                /\ ~heroes[Me].has_key
                /\ heroes' = [heroes EXCEPT ![Me].has_key = TRUE]
                /\ ~labyrinth'.key
                /\ labyrinth'.key_coord = labyrinth.key_coord
                /\ pc' = "loop"
                /\ current_turn' = (current_turn + 1) % Len(heroes)
       /\ \A i \in 1..Len(heroes), j \in 1..Len(heroes') :
             (/\ heroes'[j].name = heroes[i].name
              /\ ~heroes[i].has_key
              /\ heroes'[j].has_key) =>
                /\ pc = "await" /\ i = Me
                /\ labyrinth.key /\ ~labyrinth'.key
                /\ labyrinth.key_coord.v = heroes[i].position]_vars

\* C15 witness: the key dropped by b has been picked up by c while a is in
\* the roster
C15_Witness ==
    /\ save_file = SavedKeyTrio
    /\ Len(heroes) = 2
    /\ heroes[1].name = "a" /\ ~heroes[1].has_key
    /\ heroes[2].name = "c" /\ heroes[2].has_key
    /\ ~labyrinth.key

\* C16: heal-at-station with health below 5 sets the health to 5, leaves the
\* self-heal count unchanged and consumes the turn; at health 5 it changes
\* nothing and the same hero chooses again.  It is only taken on a heart.
C16_HealAtStation ==
    [][\A n \in Options("heal") :
          (Awaiting /\ Chosen(n, "heal") /\ HealAtStation(n)) =>
             /\ heroes[Me].position \in Range(hearts_coords)
             /\ IF heroes[Me].health < FullHealth
                THEN /\ pc' = "loop"
                     /\ heroes' = [heroes EXCEPT ![Me].health = FullHealth]
                     /\ heroes'[Me].count_heal = heroes[Me].count_heal
                     /\ current_turn' = (current_turn + 1) % Len(heroes)
                ELSE UNCHANGED vars]_vars

\* C16 witness: in a session started afresh a hero stands on a heart with
\* full health and all self-heals left at the end of its turn; it was burnt
\* on (3,1), the only way off the start cell and a hazard in every round, so
\* it has refilled its health
C16_Witness ==
    /\ save_file = NoSave
    /\ pc = "loop"
    /\ \E i \in 1..Len(heroes) :
          /\ heroes[i].position \in Range(hearts_coords)
          /\ heroes[i].health = FullHealth
          /\ heroes[i].count_heal = StartHeals

\* the outcomes of the active hero's choices that do not consume the turn
\* leave the hero as it was: a refused self-heal, a refill at full health, a
\* declined direction and a declined retreat
RefusalsKeepHero ==
    pc = "await" =>
        LET h == heroes[Me]
        IN  /\ self_heal(h).result = "false" => self_heal(h).hero = h
            /\ (h.count_heal = 0 \/ h.health = FullHealth)
                  => self_heal(h).result = "false"
            /\ refill_health(h).result = "again" => refill_health(h).hero = h
            /\ h.health = FullHealth => refill_health(h).result = "again"
            /\ \A dir \in Directions \cup {"NO"}, confirm \in Answers :
                  LET m == hero_move(h, labyrinth, fire_cells, dir, confirm)
                  IN  /\ m.result = "false" => m.hero = h
                      /\ dir = "NO" => m.result = "false"

\* C17: every outcome that does not consume the turn (saving the game, a
\* refused self-heal, a refill at full health, a declined direction, a
\* declined retreat, a choice that is no action) leaves the round, the turn
\* index, the roster with every field of every hero, the key and the hazard
\* set unchanged, and the same hero chooses again.
C17_NonConsumingFrame ==
    [][/\ (pc = "await" /\ pc' = "await") =>
             /\ UNCHANGED <<heroes, round, current_turn, fire_cells, labyrinth>>
             /\ save_file' = Snapshot
       /\ (pc # "await" /\ pc' = "await") => RefusalsKeepHero']_vars

\* C17 witness: the active hero has saved the game and is choosing again in
\* the session it saved
C17_Witness ==
    /\ pc = "await"
    /\ save_file # NoSave
    /\ save_file = Snapshot

\* the hero at Me moves in direction dir to a passable candidate cell; the
\* retreat rule and the update of the previous position look at the terrain
\* code of the cell the hero departs from
MoveRule(dir, confirm) ==
    LET h == heroes[Me]
        c == Candidate(h.position, dir)
        m == hero_move(h, labyrinth, fire_cells, dir, confirm)
        plain == GridAt(h.position[1], h.position[2]) = 1
    IN  IF c = h.prev_position /\ plain
        THEN IF confirm = "yes"
             THEN /\ m.hero = [h EXCEPT !.health = 0]
                  /\ pc' = "loop"
                  /\ heroes' = RemoveAt(heroes, Me)
             ELSE UNCHANGED vars
        ELSE /\ m.result \in {"true", "exit"}
             /\ m.hero.position = c
             /\ m.hero.prev_position =
                   IF plain THEN h.position ELSE h.prev_position
             /\ pc' \in {"loop", "victory"}
             /\ Len(heroes') = Len(heroes) =>
                   /\ heroes'[Me].position = c
                   /\ heroes'[Me].prev_position =
                         IF plain THEN h.position ELSE h.prev_position

\* C18: for a move to a passable candidate cell, the move is a dangerous
\* retreat exactly when the candidate equals the recorded previous position
\* and the cell the hero departs from has terrain code 1; a confirmed retreat
\* sets health to 0, leaves position and previous position unchanged and
\* consumes the turn; a declined retreat changes nothing. For any other move
\* the previous position is set to the pre-move position exactly when the
\* departure cell has terrain code 1, and the position becomes the candidate
\* cell.
C18_RetreatByDepartureCell ==
    [][\A dir \in Directions, confirm \in Answers :
          (/\ Awaiting
           /\ ~Blocked(heroes[Me].position, dir)
           /\ MoveTo(dir, confirm, DrawStreams))
          => MoveRule(dir, confirm)]_vars

\* the turn order has run past the last hero of a roster that still has
\* heroes: the wrap to index 0 is due
WrapDue == pc = "loop" /\ heroes # <<>> /\ current_turn >= Len(heroes)

\* the round counter goes up by one and a hazard set is drawn for the round
RoundStarted == round' = round + 1 /\ labyrinth'.fire_coords = fire_cells'

\* C19: a turn-consuming action of a hero that survives it moves the turn
\* index to (index + 1) mod roster size and starts a round exactly when the
\* index wraps to 0; when the last hero in turn order has died and heroes
\* remain, the index wraps to 0 and a round starts before the next hero
\* chooses; the round counter changes at no other step of the play loop.
C19_AdvanceAndWrap ==
    [][/\ (pc = "await" /\ pc' = "loop" /\ Len(heroes') = Len(heroes)) =>
             /\ current_turn' = (current_turn + 1) % Len(heroes)
             /\ IF current_turn' = 0
                THEN RoundStarted
                ELSE UNCHANGED <<round, fire_cells>>
       /\ WrapDue => (current_turn' = 0 /\ RoundStarted /\ pc' # "crashed")
       /\ (pc \in {"await", "loop"} /\ ~WrapDue /\ round' # round) =>
             /\ pc = "await"
             /\ Len(heroes') = Len(heroes)
             /\ current_turn' = 0]_vars

\* the cells of the hazard set of the round
HazardCells == {fire_cells[i].v : i \in 1..Len(fire_cells)}

\* C20: a move that relocates the hero onto a cell of the hazard set of the
\* round costs it exactly 1 health (unless the golem kills it there), a move
\* that relocates it onto any other cell costs it none; a hero that stays on
\* its cell (wall collision,
\* declined or confirmed retreat, no direction) leaves the move as it would
\* with an empty hazard set, and a round start changes the health of no hero.
C20_FireOnlyOnEntering ==
    [][/\ \A dir \in Directions \cup {"NO"}, confirm \in Answers :
             (Awaiting /\ MoveTo(dir, confirm, DrawStreams)) =>
                LET h == heroes[Me]
                    m == hero_move(h, labyrinth, fire_cells, dir, confirm)
                    cold == hero_move(h, labyrinth, << >>, dir, confirm)
                IN  /\ m.result = cold.result
                    /\ m.hero.position = cold.hero.position
                    /\ m.hero.health =
                          IF /\ m.hero.position # h.position
                             /\ m.hero.position \in HazardCells
                             /\ cold.hero.health > 0
                          THEN cold.hero.health - 1
                          ELSE cold.hero.health
                    /\ m.hero.health > 0 =>
                          heroes'[Me].health = m.hero.health
       /\ (pc = "play" /\ pc' = "loop") => heroes' = heroes]_vars

\* the session load_game restores from the snapshot of the session in memory
Restored == LoadedGame(Snapshot)

\* C21: the session restored from the snapshot of a session in play behaves
\* like that session: its golem coordinate is the plain coordinate (0,7),
\* every hero is offered the same contextual actions (pick-up-key on the
\* present key's coordinate among them), and every move of the hero whose
\* turn it is ends the same way with the same hero (victory with the key and
\* health 0 without it on the golem cell, 1 health lost on a saved hazard
\* cell).
C21_RestoredBehavesAsSaved ==
    pc = "await" =>
       /\ Restored.labyrinth.golem_coord = [wrap |-> 0, c |-> Tup(GolemCell)]
       /\ \A i \in 1..Len(heroes) :
             check_near_hero(Restored.heroes, Restored.labyrinth, i)
                = check_near_hero(heroes, labyrinth, i)
       /\ \A dir \in Directions, confirm \in Answers :
             hero_move(Restored.heroes[Me], Restored.labyrinth,
                       Restored.fire_cells, dir, confirm)
                = hero_move(heroes[Me], labyrinth, fire_cells, dir, confirm)

\* the session has ended: every hero died, a hero passed the golem, or the
\* player left the game
Terminal == pc \in {"all_dead", "victory", "quit"}

\* C22: the session ends with all heroes dead exactly when the roster is
\* empty at the head of the play loop, before any hero is selected; while the
\* roster has heroes and neither victory nor quit occurred, the play loop
\* does not stop or fail: it selects a hero of the roster or removes a dead
\* one, and a hero's action ends in the loop, in victory or in quit; after
\* the session has ended nothing changes.
C22_PlayEndsOnlyWhenAllDead ==
    [][/\ (pc # "all_dead" /\ pc' = "all_dead") =>
             (pc = "loop" /\ heroes = << >>)
       /\ (pc = "loop" /\ heroes = << >>) => pc' = "all_dead"
       /\ (pc = "loop" /\ heroes # << >>) =>
             /\ pc' \in {"loop", "await"}
             /\ pc' = "await" => current_turn' < Len(heroes')
             /\ pc' = "loop" => Len(heroes') = Len(heroes) - 1
       /\ pc = "await" => pc' \in {"await", "loop", "victory", "quit"}
       /\ Terminal => UNCHANGED vars]_vars

\* the places in the roster of the heroes that hold the key
KeyHolders == {i \in 1..Len(heroes) : heroes[i].has_key}

\* C23: in every state of a session either the key is present in the
\* labyrinth and no hero of the roster holds it, or it is not present and
\* exactly one hero of the roster holds it.
C23_KeyConservation ==
    IF labyrinth.key
    THEN KeyHolders = {}
    ELSE Cardinality(KeyHolders) = 1

\* C23 witness: in a restored session the hero that held the key has died
\* and been removed, and the key lies where it fell, held by no one, while
\* other heroes play on
C23_Witness ==
    /\ InPlay
    /\ LoadedThisRun
    /\ heroes # << >>
    /\ labyrinth.key
    /\ labyrinth.key_coord.t = "tuple"
    /\ KeyHolders = {}

\* the names of the roster hs in turn order
Order(hs) == [k \in 1..Len(hs) |-> hs[k].name]

\* the roster after the step is the roster before it, in the same order,
\* without the hero whose turn it is
ActiveRemoved == Order(heroes') = Order(RemoveAt(heroes, Me))

\* C24: between two round starts the heroes take their turns in roster
\* order: a living hero whose place is reached is selected, the turn index
\* only moves from a hero to the next one, and only by a turn-consuming
\* action of that hero, so every living hero acts once and none twice; a
\* round starts only after the last hero in the order has acted; a hero
\* without health is never selected to act and never offered as a target;
\* when a hero is removed the turn index stays, so the hero after it in the
\* order is the next one up.
C24_TurnOrderWithinRound ==
    [][(InPlay /\ pc' \in {"loop", "await"}) =>
          /\ \/ Order(heroes') = Order(heroes)
             \/ ActiveRemoved
          /\ ActiveRemoved =>
                /\ pc = "loop" => heroes[Me].health <= 0
                /\ UNCHANGED <<current_turn, round>>
                /\ Me < Len(heroes) => heroes'[Me].name = heroes[Me + 1].name
          /\ (pc = "loop" /\ current_turn < Len(heroes)) =>
                IF heroes[Me].health > 0
                THEN pc' = "await" /\ UNCHANGED <<heroes, current_turn, round>>
                ELSE pc' = "loop" /\ ActiveRemoved
          /\ (round' = round /\ ~ActiveRemoved) =>
                /\ current_turn' \in {current_turn, current_turn + 1}
                /\ current_turn' = current_turn + 1 =>
                      (pc = "await" /\ pc' = "loop" /\ heroes[Me].health > 0)
                /\ (pc = "await" /\ pc' = "loop") =>
                      current_turn' = current_turn + 1
          /\ round' # round =>
                /\ pc = "await"
                /\ Me = Len(heroes)
                /\ current_turn' = 0
                /\ Order(heroes') = Order(heroes)
          /\ pc' = "await" =>
                /\ current_turn' < Len(heroes')
                /\ heroes'[current_turn' + 1].health > 0
                /\ pc # "await" =>
                      \A t \in Range(near_heroes(heroes', current_turn' + 1)) :
                         heroes'[t].health > 0]_vars

\* C24 witness: in round 8 of a restored session the second of three heroes
\* has been removed at its turn, and the third one, now second in the
\* roster, is the next to choose
C24_Witness ==
    /\ pc = "await"
    /\ save_file = SavedKeyTrio
    /\ round = 8
    /\ current_turn = 1
    /\ Len(heroes) = 2
    /\ heroes[1].name = "a"
    /\ heroes[2].name = "c"

====
